---- MODULE Spec2Model ----
(***************************************************************************)
(* Model of the static structural analyzer of src/Code-view.py:            *)
(*   - parse_python_file, its failure returns, and the                     *)
(*     CodeStructureExtractor tree walk,                                   *)
(*   - the text report of format_structure_text,                           *)
(*   - the node/edge synthesis of generate_graph_visualization,            *)
(*   - several analyses run one after the other in one process.            *)
(*                                                                         *)
(* Python strings are modelled as sequences of one-character strings, so   *)
(* that concatenation, "." joins, split('.') and replace() are computed    *)
(* character by character, as the code computes them.                      *)
(***************************************************************************)
EXTENDS Integers, Sequences, FiniteSets, TLC

(***************************************************************************)
(* Bounds of the input family.                                             *)
(***************************************************************************)
\* statements (class/function definitions, calls, assignments) of a tree of
\* arbitrary shape
MaxNodes == 3
\* nesting depth of the chains of definitions that carry one call
MaxDepth == 4
\* parameters of each kind, and defaults, of a function signature
MaxParams == 2
\* statements of a flat file
MaxStmts == 2
\* statements of a file whose path has a directory part
MaxDirStmts == 2
\* analyses run one after the other in one process, and statements of the
\* file analysed first
MaxRuns == 3
MaxRepeatNodes == 2

(***************************************************************************)
(* String helpers.                                                         *)
(***************************************************************************)
None == [k |-> "None"]

\* a str object, where the program has either a str or None
Str(chars) == [k |-> "str", chars |-> chars]

Dot == <<".">>

RECURSIVE join(_, _)
\* sep.join(parts)
join(sep, parts) ==
    IF Len(parts) = 0 THEN <<>>
    ELSE IF Len(parts) = 1 THEN parts[1]
    ELSE parts[1] \o sep \o join(sep, Tail(parts))

RECURSIVE split(_, _)
\* s.split(sep) for a one-character separator
split(s, sep) ==
    IF \A i \in 1..Len(s) : s[i] # sep THEN <<s>>
    ELSE LET i == CHOOSE j \in 1..Len(s) :
                      s[j] = sep /\ \A h \in 1..(j - 1) : s[h] # sep
         IN <<SubSeq(s, 1, i - 1)>> \o split(SubSeq(s, i + 1, Len(s)), sep)

RECURSIVE replace(_, _, _)
\* s.replace(old, new): every non-overlapping occurrence, left to right
replace(s, old, new) ==
    IF Len(s) < Len(old) THEN s
    ELSE IF SubSeq(s, 1, Len(old)) = old
         THEN new \o replace(SubSeq(s, Len(old) + 1, Len(s)), old, new)
         ELSE <<s[1]>> \o replace(Tail(s), old, new)

\* os.path.basename(p): what follows the last "/"
basename(p) ==
    LET parts == split(p, "/") IN parts[Len(parts)]

\* list[idx] += s, with Python's index rule (a negative idx counts from the end)
ListAdd(list, idx, s) ==
    LET pos == IF idx < 0 THEN idx + Len(list) + 1 ELSE idx + 1
    IN [list EXCEPT ![pos] = @ \o s]

RECURSIVE Flatten(_)
\* the concatenation of a list of lists
Flatten(seqs) ==
    IF Len(seqs) = 0 THEN <<>> ELSE seqs[1] \o Flatten(Tail(seqs))

(***************************************************************************)
(* Expression nodes and CodeStructureExtractor._get_full_name.             *)
(***************************************************************************)
Name(id) == [k |-> "Name", id |-> id]
Attribute(value, attr) == [k |-> "Attribute", value |-> value, attr |-> attr]
CallExpr(func) == [k |-> "Call", func |-> func]
Constant(text) == [k |-> "Constant", text |-> text]

Unresolved == <<"<", "?", ">">>

_get_full_name_mut(node) ==
    IF node.k = "Constant" THEN node.text ELSE Unresolved

RECURSIVE _get_full_name(_)
_get_full_name(node) ==
    IF node.k = "Name" THEN node.id
    ELSE IF node.k = "Attribute"
         THEN _get_full_name(node.value) \o Dot \o node.attr
    ELSE IF node.k = "Call"
         THEN _get_full_name(node.func) \o <<"(", ".", ".", ".", ")">>
    ELSE Unresolved

RECURSIVE CallsIn(_)
\* the walk below an expression: a Call goes to visit_Call; any other
\* expression has no handler, so generic_visit descends through it, an
\* Attribute into its value, down to the nearest calls; a Name, a Constant
\* and an absent expression hold none
CallsIn(node) ==
    IF node.k = "Call" THEN <<node>>
    ELSE IF node.k = "Attribute" THEN CallsIn(node.value)
    ELSE <<>>

(***************************************************************************)
(* The argument strings of visit_FunctionDef.                              *)
(***************************************************************************)
\* one ast.arg
Arg(arg, annotation) == [arg |-> arg, annotation |-> annotation]

\* lines 72-77: "name" or "name: annotation" for every parameter
ArgNames(a) ==
    LET all == a.posonlyargs \o a.args \o a.kwonlyargs
    IN [i \in 1..Len(all) |->
          all[i].arg \o (IF all[i].annotation # None
                         THEN <<":", " ">> \o _get_full_name(all[i].annotation)
                         ELSE <<>>)]

RECURSIVE AddDefaults(_, _, _)
\* lines 80-81: i-th default from the right goes to slot len - 1 - i
AddDefaults(args_list, defaults, i) ==
    IF i >= Len(defaults) THEN args_list
    ELSE LET default == defaults[Len(defaults) - i]
         IN AddDefaults(ListAdd(args_list, Len(args_list) - 1 - i,
                                <<"=">> \o _get_full_name(default)),
                        defaults, i + 1)

RECURSIVE AddKwDefaults(_, _, _, _)
\* lines 85-87: i-th keyword-only default from the right, when present, goes
\* to slot len - len(kwonlyargs) - 1 - i
AddKwDefaults(args_list, kwonlyargs, kw_defaults, i) ==
    IF i >= Len(kw_defaults) THEN args_list
    ELSE LET default == kw_defaults[Len(kw_defaults) - i]
             next == IF default # None
                     THEN ListAdd(args_list,
                                  Len(args_list) - Len(kwonlyargs) - 1 - i,
                                  <<"=">> \o _get_full_name(default))
                     ELSE args_list
         IN AddKwDefaults(next, kwonlyargs, kw_defaults, i + 1)

\* lines 71-87: the args_list of a function definition
ArgsList(a) ==
    LET withDefaults == AddDefaults(ArgNames(a), a.defaults, 0)
    IN IF Len(a.kwonlyargs) > 0
       THEN AddKwDefaults(withDefaults, a.kwonlyargs, a.kw_defaults, 0)
       ELSE withDefaults

(***************************************************************************)
(* Function signatures (ast.arguments) of the bounded input family.        *)
(***************************************************************************)
PosOnlyNames == <<<<"p">>, <<"q">>, <<"r">>, <<"s">>>>
ArgNamesPool == <<<<"a">>, <<"b">>, <<"c">>, <<"d">>>>
KwOnlyNames == <<<<"j">>, <<"k">>, <<"l">>, <<"m">>>>
Digits == <<"1", "2", "3", "4", "5", "6", "7", "8">>

IntName == Name(<<"i", "n", "t">>)

\* the i-th positional default and the r-th keyword-only default: the literal
\* 2 in style "const", distinct names in style "name", distinct calls
\* m.d1(), m.e1(), ... in style "call"
PosDefault(style, i) ==
    IF style = "const" THEN Constant(<<"2">>)
    ELSE IF style = "name" THEN Name(<<"d", Digits[i]>>)
    ELSE CallExpr(Attribute(Name(<<"m">>), <<"d", Digits[i]>>))
KwDefault(style, r) ==
    IF style = "const" THEN Constant(<<"2">>)
    ELSE IF style = "name" THEN Name(<<"e", Digits[r]>>)
    ELSE CallExpr(Attribute(Name(<<"m">>), <<"e", Digits[r]>>))

\* a signature with npo positional-only, na positional and nk keyword-only
\* parameters, nd positional defaults, keyword-only defaults on the
\* parameters of kwset; the first parameter is annotated when ann
Signature(npo, na, nk, nd, kwset, style, ann) ==
    [posonlyargs |-> [i \in 1..npo |->
                        Arg(PosOnlyNames[i],
                            IF ann /\ i = 1 THEN IntName ELSE None)],
     args |-> [i \in 1..na |->
                 Arg(ArgNamesPool[i],
                     IF ann /\ npo = 0 /\ i = 1 THEN IntName ELSE None)],
     kwonlyargs |-> [i \in 1..nk |->
                       Arg(KwOnlyNames[i],
                           IF ann /\ npo = 0 /\ na = 0 /\ i = 1
                           THEN IntName ELSE None)],
     defaults |-> [i \in 1..nd |-> PosDefault(style, i)],
     kw_defaults |-> [r \in 1..nk |->
                        IF r \in kwset THEN KwDefault(style, r) ELSE None]]

Signatures ==
    { Signature(npo, na, nk, nd, kwset, style, ann) :
        npo \in 0..MaxParams, na \in 0..MaxParams, nk \in 0..MaxParams,
        nd \in 0..(2 * MaxParams), kwset \in SUBSET (1..MaxParams),
        style \in {"const", "name", "call"}, ann \in BOOLEAN }

\* ast.arguments of a parsed definition has no more defaults than positional
\* parameters
ValidSignatures ==
    { s \in Signatures :
        Len(s.defaults) <= Len(s.posonlyargs) + Len(s.args) }

NoParams == Signature(0, 0, 0, 0, {}, "const", FALSE)

(***************************************************************************)
(* Syntax trees of the bounded input family.  A tree is the sequence of    *)
(* its statement nodes in source (pre-)order; parent = 0 is the Module.    *)
(***************************************************************************)
StrA == <<"A">>
StrB == <<"B">>
StrFoo == <<"f", "o", "o">>
StrBar == <<"b", "a", "r">>
StrX == <<"x">>

DefKinds == {"ClassDef", "FunctionDef"}

ClassDef(name, bases) ==
    [kind |-> "ClassDef", name |-> name, parent |-> 0, bases |-> bases,
     expr |-> None, args |-> NoParams]
FunctionDef(name, args) ==
    [kind |-> "FunctionDef", name |-> name, parent |-> 0, bases |-> <<>>,
     expr |-> None, args |-> args]
\* an expression statement whose value is the call func(...)
Call(func) ==
    [kind |-> "Call", name |-> <<>>, parent |-> 0, bases |-> <<>>,
     expr |-> func, args |-> NoParams]
\* name = value
Assign(name, value) ==
    [kind |-> "Assign", name |-> name, parent |-> 0, bases |-> <<>>,
     expr |-> value, args |-> NoParams]

\* name: annotation = value; value is None for a bare annotation
AnnAssign(name, annotation, value) ==
    [kind |-> "AnnAssign", name |-> name, parent |-> 0,
     annotation |-> annotation, expr |-> value]
\* if test: pass / for _ in iter: pass / while test: pass
If(test) == [kind |-> "If", parent |-> 0, expr |-> test]
For(iter) == [kind |-> "For", parent |-> 0, expr |-> iter]
While(test) == [kind |-> "While", parent |-> 0, expr |-> test]
\* import names
Import(names) == [kind |-> "Import", parent |-> 0, names |-> names]
\* from module import names; module is None for "from . import names"
ImportFrom(module, names) ==
    [kind |-> "ImportFrom", parent |-> 0, module |-> module, names |-> names]

ClassChoices ==
    { ClassDef(StrA, <<>>), ClassDef(StrA, <<Name(StrA)>>),
      ClassDef(StrB, <<Name(StrA)>>) }
FunctionChoices == { FunctionDef(n, NoParams) : n \in {StrFoo, StrA} }
CallChoices ==
    { Call(f) : f \in {Name(StrFoo), Name(StrBar), Name(StrX),
                    Attribute(Name(StrA), StrFoo)} }
AssignChoices == { Assign(StrX, Constant(<<"1">>)) }
NodeChoices == ClassChoices \cup FunctionChoices \cup CallChoices \cup AssignChoices

StrOs == <<"o", "s">>

\* the call foo()
FooCall == CallExpr(Name(StrFoo))

\* the statements whose operand holds the call foo():
\*   x = foo() / x: int = foo() / if foo(): pass / for _ in foo(): pass /
\*   while foo(): pass / foo()() / foo().bar()
OperandCallChoices ==
    { Assign(StrX, FooCall), AnnAssign(StrX, IntName, FooCall),
      If(FooCall), For(FooCall), While(FooCall),
      Call(FooCall), Call(Attribute(FooCall, StrBar)) }

\* the statements of the flat files: the statement kinds that have no body
\* of their own in these files
StmtChoices ==
    { AnnAssign(StrX, IntName, Constant(<<"1">>)), AnnAssign(StrX, IntName, None),
      If(Name(StrX)), For(Name(StrX)), While(Name(StrX)),
      Import(<<StrOs>>), ImportFrom(Str(StrA), <<StrB>>), ImportFrom(None, <<StrA>>),
      Call(Name(StrBar)) }

\* a flat file is a list of statements at top level, in the body of one
\* class, or in the body of one function
Wrappers == { <<>>, <<ClassDef(StrA, <<>>)>>, <<FunctionDef(StrFoo, NoParams)>> }

\* the flat files of k statements
FlatTreesOf(k) ==
    { w \o [i \in 1..k |-> [b[i] EXCEPT !.parent = Len(w)]] :
        w \in Wrappers, b \in [1..k -> StmtChoices] }

\* one statement with a call in its operand, alone, or with any statement
\* before it or after it
OperandCallBodies ==
    { <<s>> : s \in OperandCallChoices }
    \cup { <<b[1], b[2]>> :
             b \in (OperandCallChoices \X (StmtChoices \cup OperandCallChoices))
                     \cup (StmtChoices \X OperandCallChoices) }

\* the flat files with such a body
OperandCallTrees ==
    { w \o [i \in 1..Len(b) |-> [b[i] EXCEPT !.parent = Len(w)]] :
        w \in Wrappers, b \in OperandCallBodies }

\* the definitions whose header holds a call:
\*   class A(foo()) / class B(foo().bar) /
\*   def foo(a=m.d1()) / def foo(*, j=m.e1()) / def foo(a: int=m.d1(), *, j=m.e1())
HeaderCallDefs ==
    { ClassDef(StrA, <<FooCall>>), ClassDef(StrB, <<Attribute(FooCall, StrBar)>>),
      FunctionDef(StrFoo, Signature(0, 1, 0, 1, {}, "call", FALSE)),
      FunctionDef(StrFoo, Signature(0, 0, 1, 0, {1}, "call", FALSE)),
      FunctionDef(StrFoo, Signature(0, 1, 1, 1, {1}, "call", TRUE)) }

\* the files of one such definition, with an empty body or with one
\* statement in its body
HeaderCallTrees ==
    { <<d>> : d \in HeaderCallDefs }
    \cup { <<d[1], [d[2] EXCEPT !.parent = 1]>> :
             d \in HeaderCallDefs
                     \X (StmtChoices \cup OperandCallChoices
                            \cup { FunctionDef(StrBar, NoParams) }) }

RECURSIVE OpenDefs(_, _)
\* the bodies a statement that follows node n may belong to: the Module (0)
\* and the definitions among n and its ancestors
OpenDefs(t, n) ==
    IF n = 0 THEN {0}
    ELSE (IF t[n].kind \in DefKinds THEN {n} ELSE {}) \cup OpenDefs(t, t[n].parent)

RECURSIVE TreesOf(_)
\* every tree of exactly n statements
TreesOf(n) ==
    IF n = 0 THEN {<<>>}
    ELSE { Append(e[1], [e[2] EXCEPT !.parent = e[3]]) :
             e \in { f \in TreesOf(n - 1) \X NodeChoices \X (0..(n - 1)) :
                       f[3] \in OpenDefs(f[1], n - 1) } }

RECURSIVE ChainsOf(_)
\* d definitions nested in one another
ChainsOf(d) ==
    IF d = 0 THEN {<<>>}
    ELSE { Append(e[1], [e[2] EXCEPT !.parent = d - 1]) :
             e \in ChainsOf(d - 1)
                     \X { c \in ClassChoices \cup FunctionChoices : c.bases = <<>> } }

\* a call in the body of the innermost of d nested definitions
DeepChains(d) ==
    { Append(e[1], [e[2] EXCEPT !.parent = d]) : e \in ChainsOf(d) \X CallChoices }

\* the input family: the trees of at most MaxNodes statements, the chains
\* of at most MaxDepth definitions, the flat files of at most MaxStmts
\* statements, the flat files with a call in an operand, and the
\* definitions with a call in their header
IsInputTree(t) ==
    \/ \E n \in 0..MaxNodes : t \in TreesOf(n)
    \/ \E d \in 1..MaxDepth : t \in DeepChains(d)
    \/ \E k \in 1..MaxStmts : t \in FlatTreesOf(k)
    \/ t \in OperandCallTrees
    \/ t \in HeaderCallTrees

\* the statements of the body of node n (of the Module when n = 0), in order
Children(t, n) ==
    SelectSeq([i \in 1..Len(t) |-> i], LAMBDA i : t[i].parent = n)

\* the expressions of an ast.arguments node in the order of its fields: the
\* annotations of posonlyargs, args and kwonlyargs, then kw_defaults, then
\* defaults; an absent annotation or default is None
ArgExprs(a) ==
    LET params == a.posonlyargs \o a.args \o a.kwonlyargs
    IN [i \in 1..Len(params) |-> params[i].annotation]
       \o a.kw_defaults \o a.defaults

\* the expressions that are children of a statement, in the order of its
\* fields and before its body: the bases of a class, the annotations and
\* defaults of a function, the value of an assignment (its target is a
\* Name), the annotation and the value of an annotated assignment, the test
\* of if and while, the iter of for, the call of an expression statement;
\* the aliases of an import hold no expression
ExprChildren(node) ==
    CASE node.kind = "ClassDef" -> node.bases
      [] node.kind = "FunctionDef" -> ArgExprs(node.args)
      [] node.kind = "Assign" -> <<node.expr>>
      [] node.kind = "AnnAssign" -> <<node.annotation, node.expr>>
      [] node.kind \in {"If", "For", "While"} -> <<node.expr>>
      [] node.kind = "Call" -> <<CallExpr(node.expr)>>
      [] OTHER -> <<>>

\* source paths
Paths == { <<"a", "2", ".", "p", "y">>,
           <<"d", "/", "g", "a", "m", "e", ".", "p", "y">> }

\* the path has a directory part
HasDir(p) == \E i \in 1..Len(p) : p[i] = "/"

ModuleDefault == <<"M", "o", "d", "u", "l", "e">>

(***************************************************************************)
(* State.                                                                  *)
(***************************************************************************)
VARIABLES
    filepath,       \* parse_python_file: the path argument
    tree,           \* ast.parse(source_code): the statements of the file
    pc,             \* position of the run
    structure,      \* extractor.structure
    current_scope,  \* extractor.current_scope
    agenda,         \* pending node visits and scope pops of the recursive walk
    all_nodes,      \* generate_graph_visualization: all_nodes
    dot_nodes,      \* dot.node(...) statements, in order
    dot_edges,      \* dot.edge(...) statements, in order
    call_i,         \* position of the loop over structure["calls"].items()
    sig,            \* visit_FunctionDef: node.args of a definition
    args_list,      \* visit_FunctionDef: args_list built for sig
    source,         \* what the file system and the parser make of filepath
    opened,         \* parse_python_file: open(filepath) has been called
    result,         \* parse_python_file: the returned pair
    report,         \* format_structure_text: the returned text
    previous        \* the analyses made before in this process: file and result

vars == <<filepath, tree, pc, structure, current_scope, agenda,
          all_nodes, dot_nodes, dot_edges, call_i, sig, args_list,
          source, opened, result, report, previous>>

walkVars == <<filepath, tree, pc, structure, current_scope, agenda>>
graphVars == <<all_nodes, dot_nodes, dot_edges, call_i>>
argVars == <<sig, args_list>>
ioVars == <<source, opened, result>>
textVars == <<report>>
runVars == <<previous>>

(***************************************************************************)
(* CodeStructureExtractor.                                                 *)
(***************************************************************************)
\* a structure that is one object shared by all extractors
NewStructure_shared(module_name) ==
    IF previous = <<>>
    THEN [module_name |-> module_name,
          imports |-> [direct |-> <<>>, from |-> <<>>],
          global_variables |-> <<>>,
          classes |-> <<>>,
          functions |-> <<>>,
          calls |-> <<>>]
    ELSE [previous[Len(previous)].structure EXCEPT !.module_name = module_name]

\* __init__, lines 21-31 (module_name is assigned by parse_python_file)
NewStructure(module_name) ==
    [module_name |-> module_name,
     imports |-> [direct |-> <<>>, from |-> <<>>],
     global_variables |-> <<>>,
     classes |-> <<>>,
     functions |-> <<>>,
     calls |-> <<>>]

\* structure["calls"] is a dict from caller to a set of callees; it is previous
\* as the sequence of its items in insertion order
HasKey(calls, key) == \E i \in 1..Len(calls) : calls[i].caller = key
KeyIndex(calls, key) == CHOOSE i \in 1..Len(calls) : calls[i].caller = key
Callees(calls, key) ==
    IF HasKey(calls, key) THEN calls[KeyIndex(calls, key)].callees ELSE {}

_add_call(calls, caller_id, callee_id) ==
    IF HasKey(calls, caller_id)
    THEN [calls EXCEPT ![KeyIndex(calls, caller_id)].callees = @ \cup {callee_id}]
    ELSE Append(calls, [caller |-> caller_id, callees |-> {callee_id}])

_get_current_scope_id_mut(scope, module_name) ==
    IF Len(scope) > 0 THEN module_name \o Dot \o join(Dot, scope)
    ELSE module_name

_get_current_scope_id(scope, module_name) ==
    IF Len(scope) > 0 THEN join(Dot, scope)
    ELSE module_name

ClassNamesOf(classes) == { classes[i].name : i \in 1..Len(classes) }

\* the first class record of the list that has the name: the record the
\* for ... break loops of lines 105-108 and 126-129 stop at
FirstClass(classes, name) ==
    CHOOSE i \in 1..Len(classes) :
        /\ classes[i].name = name
        /\ \A j \in 1..(i - 1) : classes[j].name # name

LastClass(classes, name) ==
    CHOOSE i \in 1..Len(classes) :
        /\ classes[i].name = name
        /\ \A j \in (i + 1)..Len(classes) : classes[j].name # name

AttachMethod_last(classes, class_name, func_info) ==
    [classes EXCEPT ![LastClass(classes, class_name)].methods =
                        Append(@, func_info)]

AttachMethod_all(classes, class_name, func_info) ==
    [i \in 1..Len(classes) |->
        IF classes[i].name = class_name
        THEN [classes[i] EXCEPT !.methods = Append(@, func_info)]
        ELSE classes[i]]

\* lines 104-108
AttachMethod(classes, class_name, func_info) ==
    [classes EXCEPT ![FirstClass(classes, class_name)].methods =
                        Append(@, func_info)]

AttachAttribute_last(classes, scope_name, var_info) ==
    IF scope_name \in ClassNamesOf(classes)
    THEN [classes EXCEPT ![LastClass(classes, scope_name)].attributes =
                             Append(@, var_info)]
    ELSE classes

\* lines 125-129: the loop finds no record when the scope is not a class
AttachAttribute(classes, scope_name, var_info) ==
    IF scope_name \in ClassNamesOf(classes)
    THEN [classes EXCEPT ![FirstClass(classes, scope_name)].attributes =
                             Append(@, var_info)]
    ELSE classes

\* line 102
IsMethod(scope, classes) ==
    Len(scope) > 0 /\ scope[Len(scope)] \in ClassNamesOf(classes)

\* the pending steps of the walk: the visit of statement n, the visit of
\* call expression e of statement n, the pop that ends definition n
Visit(n) == [op |-> "visit", n |-> n, e |-> None]
VisitExpr(n, e) == [op |-> "expr", n |-> n, e |-> e]
Pop(n) == [op |-> "pop", n |-> n, e |-> None]

\* the visits of the nearest calls of the expressions exprs of statement n
ExprItems(n, exprs) ==
    Flatten([i \in 1..Len(exprs) |->
               [j \in 1..Len(CallsIn(exprs[i])) |->
                   VisitExpr(n, CallsIn(exprs[i])[j])]])

\* the visit of statement c of a body: an expression statement has no
\* handler, so the walk goes straight to its call
StmtItems(c) ==
    IF tree[c].kind = "Call" THEN ExprItems(c, ExprChildren(tree[c]))
    ELSE <<Visit(c)>>

\* generic_visit(node) of statement n (of the Module when n = 0): every child
\* node in the order of the fields, the expressions of the statement first
\* and then the statements of its body
GenericVisit(n) ==
    (IF n = 0 THEN <<>> ELSE ExprItems(n, ExprChildren(tree[n])))
    \o Flatten([i \in 1..Len(Children(tree, n)) |->
                  StmtItems(Children(tree, n)[i])])

Head1 == agenda[1]
AtNode(kind) ==
    /\ pc = "visit"
    /\ Len(agenda) > 0
    /\ Head1.op = "visit"
    /\ Head1.n > 0
    /\ tree[Head1.n].kind = kind

\* the four f-strings of the failure returns, lines 186, 192, 201 and 203;
\* e is str(e) of the exception caught
MsgNotExist_nopath(fp) ==
    <<"E", "r", "r", "o", "r", ":", " ", "F", "i", "l", "e", " ", "d", "o", "e", "s", " ", "n", "o", "t", " ", "e", "x", "i", "s", "t">>

MsgNotExist(fp) ==
    <<"E", "r", "r", "o", "r", ":", " ", "F", "i", "l", "e", " ", "d", "o", "e", "s", " ", "n", "o", "t", " ", "e", "x", "i", "s", "t", " ", "'">> \o fp \o <<"'">>
MsgCouldNotRead(fp, e) ==
    <<"E", "r", "r", "o", "r", ":", " ", "C", "o", "u", "l", "d", " ", "n", "o", "t", " ", "r", "e", "a", "d", " ", "f", "i", "l", "e", " ", "'">>
        \o fp \o <<"'", ":", " ">> \o e
MsgSyntaxError(fp, e) ==
    <<"P", "a", "r", "s", "i", "n", "g", " ", "e", "r", "r", "o", "r", ":", " ", "F", "i", "l", "e", " ", "'">> \o fp
        \o <<"'", " ", "c", "o", "n", "t", "a", "i", "n", "s", " ", "s", "y", "n", "t", "a", "x", " ", "e", "r", "r", "o", "r", ":", " ">>
        \o e
MsgUnknown(e) ==
    <<"A", "n", " ", "u", "n", "k", "n", "o", "w", "n", " ", "e", "r", "r", "o", "r", " ", "o", "c", "c", "u", "r", "r", "e", "d", " ", "d", "u", "r", "i", "n", "g", " ", "p", "a", "r", "s", "i", "n", "g", ":", " ">>
        \o e

\* str(e) of a caught exception: any text, the empty one included
ErrorTexts == { <<>>, <<"i", "n", "v", "a", "l", "i", "d", " ", "s", "y", "n", "t", "a", "x">> }

\* str(e) of the exceptions met outside open, read and the grammar: the
\* empty text of MemoryError() and the text of a RecursionError
FaultTexts ==
    { <<>>,
      <<"m", "a", "x", "i", "m", "u", "m", " ", "r", "e", "c", "u", "r", "s", "i", "o", "n", " ", "d", "e", "p", "t", "h", " ", "e", "x", "c", "e", "e", "d", "e", "d">> }

ReturnFailure_partial(st, message) == [structure |-> st, message |-> Str(message)]

\* return None, message (lines 186, 192, 201, 203); st is extractor.structure
\* at that moment, None when no extractor exists
ReturnFailure(st, message) == [structure |-> None, message |-> Str(message)]

\* return extractor.structure, None (line 199)
ReturnSuccess(st) == [structure |-> st, message |-> None]

\* lines 185-186: os.path.exists(filepath) is false
ReportMissing ==
    /\ pc = "start"
    /\ source = "missing"
    /\ result' = ReturnFailure(structure, MsgNotExist(filepath))
    /\ pc' = "failed"
    /\ UNCHANGED <<filepath, tree, structure, current_scope, agenda>>
    /\ UNCHANGED <<graphVars, argVars, source, opened, textVars, runVars>>

\* lines 188-192: open or read raises
ReadFailure ==
    /\ pc = "start"
    /\ source = "unreadable"
    /\ opened' = TRUE
    /\ \E e \in ErrorTexts :
         result' = ReturnFailure(structure, MsgCouldNotRead(filepath, e))
    /\ pc' = "failed"
    /\ UNCHANGED <<filepath, tree, structure, current_scope, agenda>>
    /\ UNCHANGED <<graphVars, argVars, source, textVars, runVars>>

\* lines 194-195 and 200-201: ast.parse raises SyntaxError
SyntaxFailure ==
    /\ pc = "start"
    /\ source = "syntax_error"
    /\ opened' = TRUE
    /\ \E e \in ErrorTexts :
         result' = ReturnFailure(structure, MsgSyntaxError(filepath, e))
    /\ pc' = "failed"
    /\ UNCHANGED <<filepath, tree, structure, current_scope, agenda>>
    /\ UNCHANGED <<graphVars, argVars, source, textVars, runVars>>

\* lines 194-195 and 202-203: ast.parse raises another exception (a
\* RecursionError of the parser, a ValueError for a null byte)
ParseFault ==
    /\ pc = "start"
    /\ source = "unparsable"
    /\ opened' = TRUE
    /\ \E e \in FaultTexts :
         result' = ReturnFailure(structure, MsgUnknown(e))
    /\ pc' = "failed"
    /\ UNCHANGED <<filepath, tree, structure, current_scope, agenda>>
    /\ UNCHANGED <<graphVars, argVars, source, textVars, runVars>>

\* lines 188-198, up to the call of extractor.visit(tree)
ParseFile ==
    /\ pc = "start"
    /\ source = "ok"
    /\ opened' = TRUE
    /\ structure' = NewStructure(replace(basename(filepath), <<".", "p", "y">>, <<>>))
    /\ current_scope' = <<>>
    /\ agenda' = <<Visit(0)>>
    /\ pc' = "visit"
    /\ UNCHANGED <<filepath, tree>>
    /\ UNCHANGED <<graphVars, argVars, source, result, textVars, runVars>>

\* lines 199 and 202-203: the walk raises (a RecursionError, a MemoryError)
\* at any point between extractor.visit(tree) and its return: before a
\* handler runs, or after a handler has made its update, inside the
\* generic_visit that ends it (on a long chain of attributes, which has no
\* handler), whatever is pending then; the frames of the walk are unwound
\* without their pops
Fault ==
    /\ pc = "visit"
    /\ agenda' = <<>>
    /\ \E e \in FaultTexts :
         result' = ReturnFailure(structure, MsgUnknown(e))
    /\ pc' = "failed"
    /\ UNCHANGED <<filepath, tree, structure, current_scope>>
    /\ UNCHANGED <<graphVars, argVars, source, opened, textVars, runVars>>

\* lines 51-53
visit_Module ==
    /\ pc = "visit"
    /\ Len(agenda) > 0
    /\ Head1 = Visit(0)
    /\ structure' = [structure EXCEPT !.module_name = ModuleDefault]
    /\ agenda' = GenericVisit(0) \o Tail(agenda)
    /\ UNCHANGED <<filepath, tree, pc, current_scope>>
    /\ UNCHANGED <<graphVars, argVars, ioVars, textVars, runVars>>

\* lines 55-67; line 68 is LeaveScope
visit_ClassDef ==
    /\ AtNode("ClassDef")
    /\ LET n == Head1.n
           node == tree[n]
           class_info ==
               [name |-> node.name,
                methods |-> <<>>,
                bases |-> LET kept == SelectSeq(node.bases,
                                         LAMBDA b : b.k \in {"Name", "Attribute"})
                          IN [i \in 1..Len(kept) |-> _get_full_name(kept[i])],
                attributes |-> <<>>,
                def |-> n]
       IN /\ structure' = [structure EXCEPT !.classes = Append(@, class_info)]
          /\ current_scope' = Append(current_scope, node.name)
          /\ agenda' = GenericVisit(n) \o <<Pop(n)>> \o Tail(agenda)
    /\ UNCHANGED <<filepath, tree, pc>>
    /\ UNCHANGED <<graphVars, argVars, ioVars, textVars, runVars>>

\* lines 70-114; line 115 is LeaveScope
visit_FunctionDef ==
    /\ AtNode("FunctionDef")
    /\ LET n == Head1.n
           node == tree[n]
           func_info == [name |-> node.name,
                         args |-> ArgsList(node.args),
                         def |-> n]
       IN /\ IF IsMethod(current_scope, structure.classes)
             THEN structure' =
                    [structure EXCEPT !.classes =
                        AttachMethod(@, current_scope[Len(current_scope)], func_info)]
             ELSE structure' =
                    [structure EXCEPT !.functions = Append(@, func_info)]
          /\ current_scope' = Append(current_scope, node.name)
          /\ agenda' = GenericVisit(n) \o <<Pop(n)>> \o Tail(agenda)
    /\ UNCHANGED <<filepath, tree, pc>>
    /\ UNCHANGED <<graphVars, argVars, ioVars, textVars, runVars>>

LeaveScope_nopop ==
    /\ pc = "visit"
    /\ Len(agenda) > 0
    /\ Head1.op = "pop"
    /\ agenda' = Tail(agenda)
    /\ UNCHANGED <<filepath, tree, pc, structure, current_scope>>
    /\ UNCHANGED <<graphVars, argVars, ioVars, textVars, runVars>>

\* line 68 and line 115: current_scope.pop() once generic_visit has returned
LeaveScope ==
    /\ pc = "visit"
    /\ Len(agenda) > 0
    /\ Head1.op = "pop"
    /\ current_scope' = SubSeq(current_scope, 1, Len(current_scope) - 1)
    /\ agenda' = Tail(agenda)
    /\ UNCHANGED <<filepath, tree, pc, structure>>
    /\ UNCHANGED <<graphVars, argVars, ioVars, textVars, runVars>>

\* lines 117-132, one target that is a Name
visit_Assign ==
    /\ AtNode("Assign")
    /\ LET node == tree[Head1.n]
           var_info == [name |-> node.name,
                        value |-> Str(_get_full_name(node.expr))]
       IN IF Len(current_scope) > 0
          THEN structure' =
                 [structure EXCEPT !.classes =
                     AttachAttribute(@, current_scope[Len(current_scope)], var_info)]
          ELSE structure' =
                 [structure EXCEPT !.global_variables = Append(@, var_info)]
    /\ agenda' = GenericVisit(Head1.n) \o Tail(agenda)
    /\ UNCHANGED <<filepath, tree, pc, current_scope>>
    /\ UNCHANGED <<graphVars, argVars, ioVars, textVars, runVars>>

\* lines 134-149, the target is a Name
visit_AnnAssign ==
    /\ AtNode("AnnAssign")
    /\ LET node == tree[Head1.n]
           var_info == [name |-> node.name,
                        annotation |-> _get_full_name(node.annotation),
                        value |-> IF node.expr # None
                                  THEN Str(_get_full_name(node.expr))
                                  ELSE None]
       IN IF Len(current_scope) > 0
          THEN structure' =
                 [structure EXCEPT !.classes =
                     AttachAttribute(@, current_scope[Len(current_scope)], var_info)]
          ELSE structure' =
                 [structure EXCEPT !.global_variables = Append(@, var_info)]
    /\ agenda' = GenericVisit(Head1.n) \o Tail(agenda)
    /\ UNCHANGED <<filepath, tree, pc, current_scope>>
    /\ UNCHANGED <<graphVars, argVars, ioVars, textVars, runVars>>

\* lines 151-154
visit_Import ==
    /\ AtNode("Import")
    /\ LET node == tree[Head1.n]
       IN structure' = [structure EXCEPT !.imports.direct = @ \o node.names]
    /\ agenda' = GenericVisit(Head1.n) \o Tail(agenda)
    /\ UNCHANGED <<filepath, tree, pc, current_scope>>
    /\ UNCHANGED <<graphVars, argVars, ioVars, textVars, runVars>>

\* lines 156-160
visit_ImportFrom ==
    /\ AtNode("ImportFrom")
    /\ LET node == tree[Head1.n]
           module == IF node.module # None THEN node.module.chars ELSE <<>>
       IN structure' =
            [structure EXCEPT !.imports.from =
                @ \o [i \in 1..Len(node.names) |->
                         IF module # <<>> THEN module \o Dot \o node.names[i]
                         ELSE node.names[i]]]
    /\ agenda' = GenericVisit(Head1.n) \o Tail(agenda)
    /\ UNCHANGED <<filepath, tree, pc, current_scope>>
    /\ UNCHANGED <<graphVars, argVars, ioVars, textVars, runVars>>

\* lines 162-166, on a call expression; generic_visit goes on below
\* node.func (the calls of the input family have no argument)
visit_Call ==
    /\ pc = "visit"
    /\ Len(agenda) > 0
    /\ Head1.op = "expr"
    /\ LET node == Head1.e
           caller_id == _get_current_scope_id(current_scope, structure.module_name)
           callee_id == _get_full_name(node.func)
       IN structure' = [structure EXCEPT !.calls = _add_call(@, caller_id, callee_id)]
    /\ agenda' = ExprItems(Head1.n, <<Head1.e.func>>) \o Tail(agenda)
    /\ UNCHANGED <<filepath, tree, pc, current_scope>>
    /\ UNCHANGED <<graphVars, argVars, ioVars, textVars, runVars>>

\* lines 169-172; node.expr is node.test
visit_If ==
    /\ AtNode("If")
    /\ LET node == tree[Head1.n]
           caller_id == _get_current_scope_id(current_scope, structure.module_name)
       IN structure' =
            [structure EXCEPT !.calls =
                _add_call(@, caller_id,
                          <<"C", "o", "n", "d", "i", "t", "i", "o", "n", ":", " ">>
                              \o _get_full_name(node.expr))]
    /\ agenda' = GenericVisit(Head1.n) \o Tail(agenda)
    /\ UNCHANGED <<filepath, tree, pc, current_scope>>
    /\ UNCHANGED <<graphVars, argVars, ioVars, textVars, runVars>>

\* lines 174-177; node.expr is node.iter
visit_For ==
    /\ AtNode("For")
    /\ LET node == tree[Head1.n]
           caller_id == _get_current_scope_id(current_scope, structure.module_name)
       IN structure' =
            [structure EXCEPT !.calls =
                _add_call(@, caller_id,
                          <<"F", "o", "r", " ", "L", "o", "o", "p", ":", " ">>
                              \o _get_full_name(node.expr))]
    /\ agenda' = GenericVisit(Head1.n) \o Tail(agenda)
    /\ UNCHANGED <<filepath, tree, pc, current_scope>>
    /\ UNCHANGED <<graphVars, argVars, ioVars, textVars, runVars>>

\* lines 179-182; node.expr is node.test
visit_While ==
    /\ AtNode("While")
    /\ LET node == tree[Head1.n]
           caller_id == _get_current_scope_id(current_scope, structure.module_name)
       IN structure' =
            [structure EXCEPT !.calls =
                _add_call(@, caller_id,
                          <<"W", "h", "i", "l", "e", " ", "L", "o", "o", "p", ":", " ">>
                              \o _get_full_name(node.expr))]
    /\ agenda' = GenericVisit(Head1.n) \o Tail(agenda)
    /\ UNCHANGED <<filepath, tree, pc, current_scope>>
    /\ UNCHANGED <<graphVars, argVars, ioVars, textVars, runVars>>

\* line 199: extractor.visit(tree) has returned
ReturnStructure ==
    /\ pc = "visit"
    /\ agenda = <<>>
    /\ result' = ReturnSuccess(structure)
    /\ pc' = "parsed"
    /\ UNCHANGED <<filepath, tree, structure, current_scope, agenda>>
    /\ UNCHANGED <<graphVars, argVars, source, opened, textVars, runVars>>

(***************************************************************************)
(* generate_graph_visualization: nodes and edges handed to the Digraph.    *)
(***************************************************************************)
ModulePrefix == <<"m", "o", "d", "u", "l", "e", "_">>

\* f"module_{structure['module_name']}"
ModuleId(module_name) == ModulePrefix \o module_name

DotNode(id, kind) == [id |-> id, kind |-> kind]
DotEdge(src, dst, label) == [src |-> src, dst |-> dst, label |-> label]

\* the injective enumerations of a finite set: the orders in which a Python
\* set may be iterated
Perms(S) ==
    { f \in [1..Cardinality(S) -> S] :
        \A i, j \in 1..Cardinality(S) : i # j => f[i] # f[j] }

(***************************************************************************)
(* format_structure_text: the text report, as the list `output` of its     *)
(* lines and as the string returned.  The definitions of the input family  *)
(* have no decorator, no docstring and no return annotation, so the lines  *)
(* the code prints for these are absent.                                   *)
(***************************************************************************)
\* the printable ASCII characters in code point order (without the
\* double quote, the backslash and the backquote, which no identifier or
\* descriptor of the input family holds)
Ascii ==
    <<" ", "!", "#", "$", "%", "&", "'", "(", ")", "*", "+", ",", "-",
      ".", "/", "0", "1", "2", "3", "4", "5", "6", "7", "8", "9", ":", ";",
      "<", "=", ">", "?", "@", "A", "B", "C", "D", "E", "F", "G", "H", "I",
      "J", "K", "L", "M", "N", "O", "P", "Q", "R", "S", "T", "U", "V", "W",
      "X", "Y", "Z", "[", "]", "^", "_", "a", "b", "c", "d", "e",
      "f", "g", "h", "i", "j", "k", "l", "m", "n", "o", "p", "q", "r", "s",
      "t", "u", "v", "w", "x", "y", "z", "{", "|", "}", "~">>

\* ord(c), up to the offset of the first printable character
Ord(c) == CHOOSE i \in 1..Len(Ascii) : Ascii[i] = c

RECURSIVE StrLess(_, _)
\* a < b on Python strings
StrLess(a, b) ==
    IF Len(b) = 0 THEN FALSE
    ELSE IF Len(a) = 0 THEN TRUE
    ELSE IF a[1] = b[1] THEN StrLess(Tail(a), Tail(b))
    ELSE Ord(a[1]) < Ord(b[1])

RECURSIVE sorted(_)
\* sorted(list(S)) for a set S of strings
sorted(S) ==
    IF S = {} THEN <<>>
    ELSE LET m == CHOOSE x \in S : \A y \in S \ {x} : StrLess(x, y)
         IN <<m>> \o sorted(S \ {m})

\* s.split('.', 1)
split1(s) ==
    IF \A i \in 1..Len(s) : s[i] # "." THEN <<s>>
    ELSE LET i == CHOOSE j \in 1..Len(s) :
                      s[j] = "." /\ \A h \in 1..(j - 1) : s[h] # "."
         IN <<SubSeq(s, 1, i - 1), SubSeq(s, i + 1, Len(s))>>

\* lines 212-221
ImportLines(imports) ==
    IF Len(imports.direct) > 0 \/ Len(imports.from) > 0
    THEN <<<<"\n", "-", "-", "-", " ", "I", "m", "p", "o", "r", "t", "s", " ", "-",
           "-", "-">>>>
         \o LET direct == sorted({ imports.direct[i] : i \in 1..Len(imports.direct) })
            IN [i \in 1..Len(direct) |->
                  <<" ", " ", "-", " ", "i", "m", "p", "o", "r", "t", " ">> \o direct[i]]
         \o LET from == sorted({ imports.from[i] : i \in 1..Len(imports.from) })
            IN [i \in 1..Len(from) |->
                  LET parts == split1(from[i])
                  IN IF Len(parts) > 1
                     THEN <<" ", " ", "-", " ", "f", "r", "o", "m", " ">> \o parts[1]
                            \o <<" ", "i", "m", "p", "o", "r", "t", " ">> \o parts[2]
                     ELSE <<" ", " ", "-", " ", "f", "r", "o", "m", " ", ".", " ", "i", "m", "p",
                            "o", "r", "t", " ">>
                            \o parts[1]]
    ELSE <<>>

\* lines 226-231 and 256-261: the line of a variable after its prefix
VarLine(prefix, var) ==
    prefix \o var.name
        \o (IF "annotation" \in DOMAIN var /\ var.annotation # <<>>
            THEN <<":", " ">> \o var.annotation ELSE <<>>)
        \o (IF var.value # None
            THEN <<" ", "=", " ">> \o var.value.chars ELSE <<>>)

\* lines 243-245 and 277-279: the "Calls:" sub-list looked up under key
CallsLines(calls, key, indent) ==
    IF HasKey(calls, key) /\ Callees(calls, key) # {}
    THEN LET callees == sorted(Callees(calls, key))
         IN <<indent \o <<"C", "a", "l", "l", "s", ":">>>>
            \o [i \in 1..Len(callees) |->
                  indent \o <<" ", " ", "-", " ">> \o callees[i]]
    ELSE <<>>

\* line 237 and line 271: the line of a function after its indentation
DefLine(indent, func) ==
    indent \o <<"d", "e", "f", " ">> \o func.name \o <<"(">>
        \o join(<<",", " ">>, func.args) \o <<")">>

\* lines 235-245
FunctionLines(st, func) ==
    <<DefLine(<<" ", " ">>, func)>>
    \o CallsLines(st.calls, st.module_name \o Dot \o func.name,
                  <<" ", " ", " ", " ">>)

\* lines 268-279
MethodLines(st, cls, method) ==
    <<DefLine(<<" ", " ", " ", " ", " ", " ">>, method)>>
    \o CallsLines(st.calls,
                  st.module_name \o Dot \o cls.name \o Dot \o method.name,
                  <<" ", " ", " ", " ", " ", " ", " ", " ">>)

\* lines 250-279
ClassLines(st, cls) ==
    <<<<" ", " ", "c", "l", "a", "s", "s", " ">> \o cls.name
        \o (IF Len(cls.bases) > 0
            THEN <<"(">> \o join(<<",", " ">>, cls.bases) \o <<")">>
            ELSE <<>>)
        \o <<":">>>>
    \o (IF Len(cls.attributes) > 0
        THEN <<<<" ", " ", " ", " ", "-", "-", "-", " ", "C", "l", "a", "s", "s", " ",
               "A", "t", "t", "r", "i", "b", "u", "t", "e", "s", " ", "-", "-", "-">>>>
             \o [i \in 1..Len(cls.attributes) |->
                   VarLine(<<" ", " ", " ", " ", "-", " ">>, cls.attributes[i])]
        ELSE <<>>)
    \o (IF Len(cls.methods) > 0
        THEN <<<<" ", " ", " ", " ", "-", "-", "-", " ", "M", "e", "t", "h", "o", "d",
               "s", " ", "-", "-", "-">>>>
             \o Flatten([i \in 1..Len(cls.methods) |->
                           MethodLines(st, cls, cls.methods[i])])
        ELSE <<>>)

\* lines 282-286
ModuleCallsLines(st) ==
    IF HasKey(st.calls, st.module_name) /\ Callees(st.calls, st.module_name) # {}
    THEN LET callees == sorted(Callees(st.calls, st.module_name))
         IN <<<<"\n", "-", "-", "-", " ", "M", "o", "d", "u", "l", "e", "-", "L", "e",
              "v", "e", "l", " ", "C", "a", "l", "l", "s", " ", "-", "-", "-">>>>
            \o [i \in 1..Len(callees) |-> <<" ", " ", "-", " ">> \o callees[i]]
    ELSE <<>>

\* lines 209-286: the list output
OutputLines(st) ==
    <<<<"-", "-", "-", " ", "M", "o", "d", "u", "l", "e", ":", " ">> \o st.module_name
        \o <<" ", "-", "-", "-">>>>
    \o ImportLines(st.imports)
    \o (IF Len(st.global_variables) > 0
        THEN <<<<"\n", "-", "-", "-", " ", "G", "l", "o", "b", "a", "l", " ", "V", "a",
               "r", "i", "a", "b", "l", "e", "s", " ", "-", "-", "-">>>>
             \o [i \in 1..Len(st.global_variables) |->
                   VarLine(<<" ", " ", "-", " ">>, st.global_variables[i])]
        ELSE <<>>)
    \o (IF Len(st.functions) > 0
        THEN <<<<"\n", "-", "-", "-", " ", "G", "l", "o", "b", "a", "l", " ", "F", "u",
               "n", "c", "t", "i", "o", "n", "s", " ", "-", "-", "-">>>>
             \o Flatten([i \in 1..Len(st.functions) |->
                           FunctionLines(st, st.functions[i])])
        ELSE <<>>)
    \o (IF Len(st.classes) > 0
        THEN <<<<"\n", "-", "-", "-", " ", "C", "l", "a", "s", "s", "e", "s", " ", "-",
               "-", "-">>>>
             \o Flatten([i \in 1..Len(st.classes) |-> ClassLines(st, st.classes[i])])
        ELSE <<>>)
    \o ModuleCallsLines(st)

\* lines 205-288; the structure parse_python_file returned is never empty
format_structure_text(st) == join(<<"\n">>, OutputLines(st))

\* lines 607-610 (show_text_structure): the report of the structure returned
RenderText ==
    /\ pc = "parsed"
    /\ report' = format_structure_text(result.structure)
    /\ pc' = "reported"
    /\ UNCHANGED <<filepath, tree, structure, current_scope, agenda>>
    /\ UNCHANGED <<graphVars, argVars, ioVars, runVars>>

\* lines 340-371, for one class: its node, attribute nodes and method nodes
ClassNodes(module_id, cls) ==
    LET class_id == module_id \o Dot \o cls.name
    IN <<DotNode(class_id, "class")>>
       \o [i \in 1..Len(cls.attributes) |->
             DotNode(class_id \o Dot \o cls.attributes[i].name, "attribute")]
       \o [i \in 1..Len(cls.methods) |->
             DotNode(class_id \o Dot \o cls.methods[i].name, "method")]

ClassEdges(module_id, cls) ==
    LET class_id == module_id \o Dot \o cls.name
    IN <<DotEdge(module_id, class_id, "contains")>>
       \o [i \in 1..Len(cls.attributes) |->
             DotEdge(class_id, class_id \o Dot \o cls.attributes[i].name,
                     "has attribute")]
       \o [i \in 1..Len(cls.methods) |->
             DotEdge(class_id, class_id \o Dot \o cls.methods[i].name,
                     "contains method")]

\* lines 315-371: the nodes of the declared entities, in the order of the
\* dot.node calls
DeclaredNodes(st) ==
    LET module_id == ModuleId(st.module_name)
    IN <<DotNode(module_id, "module")>>
       \o (IF Len(st.global_variables) > 0
           THEN <<DotNode(module_id \o <<"_", "g", "l", "o", "b", "a", "l", "s">>,
                          "globals")>>
           ELSE <<>>)
       \o [i \in 1..Len(st.functions) |->
             DotNode(module_id \o Dot \o st.functions[i].name, "function")]
       \o Flatten([i \in 1..Len(st.classes) |-> ClassNodes(module_id, st.classes[i])])

DeclaredEdges(st) ==
    LET module_id == ModuleId(st.module_name)
    IN (IF Len(st.global_variables) > 0
        THEN <<DotEdge(module_id,
                       module_id \o <<"_", "g", "l", "o", "b", "a", "l", "s">>,
                       "defines")>>
        ELSE <<>>)
       \o [i \in 1..Len(st.functions) |->
             DotEdge(module_id, module_id \o Dot \o st.functions[i].name, "contains")]
       \o Flatten([i \in 1..Len(st.classes) |-> ClassEdges(module_id, st.classes[i])])

IdsOf(nodes) == { nodes[i].id : i \in 1..Len(nodes) }

\* lines 387-394: the node id of a caller scope id
CallerId(module_name, caller_raw) ==
    LET caller_parts == split(caller_raw, ".")
    IN IF Len(caller_parts) = 1
       THEN IF caller_parts[1] # module_name
            THEN ModuleId(module_name) \o Dot \o caller_parts[1]
            ELSE ModuleId(module_name)
       ELSE IF Len(caller_parts) = 2
       THEN ModuleId(module_name) \o Dot \o caller_parts[1] \o Dot \o caller_parts[2]
       ELSE IF Len(caller_parts) = 3
       THEN ModuleId(module_name) \o Dot \o caller_parts[1] \o Dot \o caller_parts[2]
                \o Dot \o caller_parts[3]
       ELSE <<>>

\* lines 407-418: the node id of a callee descriptor
ResolveCallee(module_name, classes, nodes, callee) ==
    IF (ModuleId(module_name) \o Dot \o callee) \in nodes
    THEN ModuleId(module_name) \o Dot \o callee
    ELSE LET hit(i) == (ModuleId(module_name) \o Dot \o classes[i].name
                           \o Dot \o callee) \in nodes
         IN IF \E i \in 1..Len(classes) : hit(i)
            THEN LET i == CHOOSE h \in 1..Len(classes) :
                              hit(h) /\ \A j \in 1..(h - 1) : ~hit(j)
                 IN ModuleId(module_name) \o Dot \o classes[i].name \o Dot \o callee
            ELSE callee

\* lines 311-371
DeclareNodes ==
    /\ pc = "parsed"
    /\ dot_nodes' = DeclaredNodes(structure)
    /\ dot_edges' = DeclaredEdges(structure)
    /\ all_nodes' = IdsOf(DeclaredNodes(structure))
    /\ pc' = "declared"
    /\ UNCHANGED <<filepath, tree, structure, current_scope, agenda>>
    /\ UNCHANGED <<call_i, argVars, ioVars, textVars, runVars>>

AddCalleeNodes_skip ==
    /\ pc = "declared"
    /\ call_i' = 1
    /\ pc' = "calls"
    /\ UNCHANGED <<filepath, tree, structure, current_scope, agenda>>
    /\ UNCHANGED <<all_nodes, dot_nodes, dot_edges, argVars, ioVars, textVars, runVars>>

\* lines 376-381: a generic node for every callee that is not a node id yet
AddCalleeNodes ==
    /\ pc = "declared"
    /\ LET calls == structure.calls
           new == UNION { calls[i].callees : i \in 1..Len(calls) } \ all_nodes
           first(c) == CHOOSE i \in 1..Len(calls) :
                           /\ c \in calls[i].callees
                           /\ \A j \in 1..(i - 1) : c \notin calls[j].callees
       IN \E order \in Perms(new) :
            /\ \A i, j \in 1..Len(order) : i < j => first(order[i]) <= first(order[j])
            /\ dot_nodes' = dot_nodes
                    \o [i \in 1..Len(order) |-> DotNode(order[i], "callee_placeholder")]
            /\ all_nodes' = all_nodes \cup new
    /\ call_i' = 1
    /\ pc' = "calls"
    /\ UNCHANGED <<filepath, tree, structure, current_scope, agenda>>
    /\ UNCHANGED <<dot_edges, argVars, ioVars, textVars, runVars>>

\* lines 397-403: the caller id after the lookup, and whether a "missing
\* source" node is added for it
CallerMissing(module_name, nodes, caller_raw) ==
    /\ CallerId(module_name, caller_raw) \notin nodes
    /\ ~(caller_raw = module_name /\ ModuleId(module_name) \in nodes)

FinalCallerId(module_name, nodes, caller_raw) ==
    IF /\ CallerId(module_name, caller_raw) \notin nodes
       /\ caller_raw = module_name
       /\ ModuleId(module_name) \in nodes
    THEN ModuleId(module_name)
    ELSE CallerId(module_name, caller_raw)

\* line 420: Python truth of the two ids, and no self-loop
EdgeGuard(caller_id, callee_id) ==
    caller_id # <<>> /\ callee_id # <<>> /\ caller_id # callee_id

\* lines 385-421, one item of structure["calls"]
AddCallEdges ==
    /\ pc = "calls"
    /\ call_i <= Len(structure.calls)
    /\ LET mn == structure.module_name
           caller_raw == structure.calls[call_i].caller
           callees_raw == structure.calls[call_i].callees
           caller_id == FinalCallerId(mn, all_nodes, caller_raw)
           missing == CallerMissing(mn, all_nodes, caller_raw)
           nodes1 == IF missing THEN all_nodes \cup {caller_id} ELSE all_nodes
           callee_id(c) == ResolveCallee(mn, structure.classes, nodes1, c)
       IN /\ all_nodes' = nodes1
          /\ dot_nodes' = IF missing
                          THEN Append(dot_nodes, DotNode(caller_id, "caller_placeholder"))
                          ELSE dot_nodes
          /\ \E order \in Perms(callees_raw) :
               dot_edges' = dot_edges
                   \o LET kept == SelectSeq(order,
                                     LAMBDA c : EdgeGuard(caller_id, callee_id(c)))
                      IN [i \in 1..Len(kept) |->
                            DotEdge(caller_id, callee_id(kept[i]), "calls")]
    /\ call_i' = call_i + 1
    /\ UNCHANGED <<filepath, tree, pc, structure, current_scope, agenda>>
    /\ UNCHANGED <<argVars, ioVars, textVars, runVars>>

RECURSIVE InheritNodes_always(_, _, _)
InheritNodes_always(bs, nodes, i) ==
    IF i > Len(bs) THEN <<>>
    ELSE <<DotNode(bs[i], "base_placeholder")>>
            \o InheritNodes_always(bs, nodes \cup {bs[i]}, i + 1)

RECURSIVE InheritNodes(_, _, _)
\* lines 424-430: the generic nodes added for the bases that are no node yet;
\* bs is the list of the base ids of all classes, in order
InheritNodes(bs, nodes, i) ==
    IF i > Len(bs) THEN <<>>
    ELSE IF bs[i] \in nodes THEN InheritNodes(bs, nodes, i + 1)
    ELSE <<DotNode(bs[i], "base_placeholder")>>
            \o InheritNodes(bs, nodes \cup {bs[i]}, i + 1)

\* lines 424-431
AddInheritance ==
    /\ pc = "calls"
    /\ call_i > Len(structure.calls)
    /\ LET module_id == ModuleId(structure.module_name)
           classes == structure.classes
           pairs == Flatten([c \in 1..Len(classes) |->
                       [b \in 1..Len(classes[c].bases) |->
                           DotEdge(module_id \o Dot \o classes[c].bases[b],
                                   module_id \o Dot \o classes[c].name,
                                   "inherits")]])
           bs == [i \in 1..Len(pairs) |-> pairs[i].src]
           added == InheritNodes(bs, all_nodes, 1)
       IN /\ dot_nodes' = dot_nodes \o added
          /\ all_nodes' = all_nodes \cup IdsOf(added)
          /\ dot_edges' = dot_edges \o pairs
    /\ pc' = "built"
    /\ UNCHANGED <<filepath, tree, structure, current_scope, agenda>>
    /\ UNCHANGED <<call_i, argVars, ioVars, textVars, runVars>>

(***************************************************************************)
(* Specification of one analysis: parse_python_file on a source file, then *)
(* generate_graph_visualization on the structure it returned.              *)
(***************************************************************************)
\* what parse_python_file can meet at filepath
SourceStates == {"ok", "missing", "unreadable", "syntax_error", "unparsable"}

Init ==
    /\ filepath \in Paths
    /\ source \in SourceStates
    /\ IF source = "ok"
       THEN IsInputTree(tree) /\ (HasDir(filepath) => Len(tree) <= MaxDirStmts)
       ELSE tree = <<>>
    /\ opened = FALSE
    /\ result = None
    /\ report = None
    /\ previous = <<>>
    /\ pc = "start"
    /\ structure = None
    /\ current_scope = <<>>
    /\ agenda = <<>>
    /\ all_nodes = {}
    /\ dot_nodes = <<>>
    /\ dot_edges = <<>>
    /\ call_i = 0
    /\ sig = NoParams
    /\ args_list = <<>>

Next ==
    \/ ReportMissing
    \/ ReadFailure
    \/ SyntaxFailure
    \/ ParseFault
    \/ ParseFile
    \/ Fault
    \/ visit_Module
    \/ visit_ClassDef
    \/ visit_FunctionDef
    \/ LeaveScope
    \/ visit_Assign
    \/ visit_AnnAssign
    \/ visit_Import
    \/ visit_ImportFrom
    \/ visit_Call
    \/ visit_If
    \/ visit_For
    \/ visit_While
    \/ ReturnStructure
    \/ RenderText
    \/ DeclareNodes
    \/ AddCalleeNodes
    \/ AddCallEdges
    \/ AddInheritance

Spec == Init /\ [][Next]_vars

(***************************************************************************)
(* Specification of the argument strings: visit_FunctionDef, lines 71-87,  *)
(* applied to every signature of the bounded family.                       *)
(***************************************************************************)
InitArgs ==
    /\ filepath = <<>>
    /\ tree = <<>>
    /\ source = "ok"
    /\ opened = FALSE
    /\ result = None
    /\ report = None
    /\ previous = <<>>
    /\ pc = "args"
    /\ structure = None
    /\ current_scope = <<>>
    /\ agenda = <<>>
    /\ all_nodes = {}
    /\ dot_nodes = <<>>
    /\ dot_edges = <<>>
    /\ call_i = 0
    /\ sig \in ValidSignatures
    /\ args_list = <<>>

FormatArgs ==
    /\ pc = "args"
    /\ args_list' = ArgsList(sig)
    /\ pc' = "args_done"
    /\ UNCHANGED <<filepath, tree, structure, current_scope, agenda, sig>>
    /\ UNCHANGED <<graphVars, ioVars, textVars, runVars>>

NextArgs == FormatArgs

SpecArgs == InitArgs /\ [][NextArgs]_vars

(***************************************************************************)
(* Specification of several analyses in one process: parse_python_file is  *)
(* called again, on the file analysed first or on another file, while the  *)
(* caller keeps the structures returned before.                            *)
(***************************************************************************)
StrC == <<"C">>
StrG == <<"g">>
StrY == <<"y">>
StrSys == <<"s", "y", "s">>

\* the other file:
\*   import sys / from C import y / y = sys() / if y: pass /
\*   for _ in y: pass / while y: pass / class C(y): / y: int / def g(): /
\*   y().g()
OtherTree ==
    <<Import(<<StrSys>>), ImportFrom(Str(StrC), <<StrY>>),
      Assign(StrY, CallExpr(Name(StrSys))),
      If(Name(StrY)), For(Name(StrY)), While(Name(StrY)),
      ClassDef(StrC, <<Name(StrY)>>),
      [AnnAssign(StrY, IntName, None) EXCEPT !.parent = 7],
      [FunctionDef(StrG, NoParams) EXCEPT !.parent = 7],
      [Call(Attribute(CallExpr(Name(StrY)), StrG)) EXCEPT !.parent = 9]>>

OtherPath == <<"o", ".", "p", "y">>

InitRepeat ==
    /\ filepath \in Paths
    /\ source = "ok"
    /\ \/ \E n \in 0..MaxRepeatNodes : tree \in TreesOf(n)
       \/ tree \in FlatTreesOf(1)
    /\ opened = FALSE
    /\ result = None
    /\ report = None
    /\ previous = <<>>
    /\ pc = "start"
    /\ structure = None
    /\ current_scope = <<>>
    /\ agenda = <<>>
    /\ all_nodes = {}
    /\ dot_nodes = <<>>
    /\ dot_edges = <<>>
    /\ call_i = 0
    /\ sig = NoParams
    /\ args_list = <<>>

\* the caller keeps the structure returned (lines 607 and 639) and calls
\* parse_python_file again, on the first file or on the other file
Reanalyze ==
    /\ pc = "parsed"
    /\ Len(previous) + 1 < MaxRuns
    /\ previous' = Append(previous, [filepath |-> filepath, tree |-> tree,
                             structure |-> result.structure])
    /\ \/ filepath' = previous'[1].filepath /\ tree' = previous'[1].tree
       \/ filepath' = OtherPath /\ tree' = OtherTree
    /\ pc' = "start"
    /\ structure' = None
    /\ current_scope' = <<>>
    /\ agenda' = <<>>
    /\ opened' = FALSE
    /\ result' = None
    /\ UNCHANGED <<graphVars, argVars, source, textVars>>

NextRepeat ==
    \/ ParseFile
    \/ visit_Module
    \/ visit_ClassDef
    \/ visit_FunctionDef
    \/ LeaveScope
    \/ visit_Assign
    \/ visit_AnnAssign
    \/ visit_Import
    \/ visit_ImportFrom
    \/ visit_Call
    \/ visit_If
    \/ visit_For
    \/ visit_While
    \/ ReturnStructure
    \/ Reanalyze

SpecRepeat == InitRepeat /\ [][NextRepeat]_vars

(***************************************************************************)
(* Helpers of the properties.                                              *)
(***************************************************************************)
\* parse_python_file has returned the structure
Walked == pc \in {"parsed", "reported", "declared", "calls", "built"}

NodesOfKind(kind) == { n \in 1..Len(tree) : tree[n].kind = kind }

Range(seq) == { seq[i] : i \in 1..Len(seq) }

\* the base name of a path without its extension (os.path.splitext)
Stem(p) ==
    LET b == basename(p)
        dots == { i \in 2..Len(b) : b[i] = "." }
    IN IF dots = {} THEN b
       ELSE SubSeq(b, 1, (CHOOSE i \in dots : \A j \in dots : j <= i) - 1)

RECURSIVE ScopePath(_)
\* the names of definition d and of the definitions that enclose it,
\* outermost first; the empty list for the Module
ScopePath(d) ==
    IF d = 0 THEN <<>> ELSE Append(ScopePath(tree[d].parent), tree[d].name)

\* the statements that register a descriptor of their own
LabelKinds == {"If", "For", "While"}

\* the descriptor the handler of if, for or while statement n registers
Descriptor(n) ==
    (CASE tree[n].kind = "If" -> <<"C", "o", "n", "d", "i", "t", "i", "o", "n", ":", " ">>
       [] tree[n].kind = "For" -> <<"F", "o", "r", " ", "L", "o", "o", "p", ":", " ">>
       [] tree[n].kind = "While" ->
            <<"W", "h", "i", "l", "e", " ", "L", "o", "o", "p", ":", " ">>)
    \o _get_full_name(tree[n].expr)

RECURSIVE AllCallsIn(_)
\* every call expression of an expression, the calls inside the callee of
\* another call included
AllCallsIn(node) ==
    IF node.k = "Call" THEN {node} \cup AllCallsIn(node.func)
    ELSE IF node.k = "Attribute" THEN AllCallsIn(node.value)
    ELSE {}

\* the callee descriptors of the call expressions of statement n: of its
\* operands, and of its header when n is a definition
CallDescriptors(n) ==
    LET exprs == ExprChildren(tree[n])
    IN UNION { { _get_full_name(c.func) : c \in AllCallsIn(exprs[i]) } :
                 i \in 1..Len(exprs) }

\* the definition that encloses the expressions of statement n: n itself
\* when n is a definition, whose header is part of the statement
ExprScope(n) == IF tree[n].kind \in DefKinds THEN n ELSE tree[n].parent

\* the pairs (enclosing definition, descriptor) that statement n gives
Registered(n) ==
    (IF tree[n].kind \in LabelKinds
     THEN { <<tree[n].parent, Descriptor(n)>> } ELSE {})
    \cup { <<ExprScope(n), c>> : c \in CallDescriptors(n) }

\* the scope id the claim states for the statements of the body of d
StatedScopeId(d) ==
    IF ScopePath(d) = <<>> THEN structure.module_name
    ELSE join(Dot, ScopePath(d))

\* the places where a record of function definition n is stored
RecordPlaces(n) ==
    { <<0, i>> : i \in { h \in 1..Len(structure.functions) :
                           structure.functions[h].def = n } }
    \cup UNION { { <<c, i>> : i \in { h \in 1..Len(structure.classes[c].methods) :
                                        structure.classes[c].methods[h].def = n } } :
                 c \in 1..Len(structure.classes) }

\* the definitions of a list of function records
DefsOf(records) == [i \in 1..Len(records) |-> records[i].def]

\* the statements with a call that are directly in the body of a top-level
\* function, and of a method of a top-level class
HasCall(n) == tree[n].kind \notin DefKinds /\ CallDescriptors(n) # {}

CallsInFunction ==
    { n \in 1..Len(tree) :
        /\ HasCall(n)
        /\ tree[n].parent # 0
        /\ tree[tree[n].parent].kind = "FunctionDef"
        /\ tree[tree[n].parent].parent = 0 }
CallsInMethod ==
    { n \in 1..Len(tree) :
        /\ HasCall(n)
        /\ tree[n].parent # 0
        /\ tree[tree[n].parent].kind = "FunctionDef"
        /\ tree[tree[n].parent].parent # 0
        /\ tree[tree[tree[n].parent].parent].kind = "ClassDef"
        /\ tree[tree[tree[n].parent].parent].parent = 0 }
FunctionOf(n) == tree[tree[n].parent].name
ClassOf(n) == tree[tree[tree[n].parent].parent].name

\* def foo(): bar()
FooCallsBar == <<FunctionDef(StrFoo, NoParams),
                 [Call(Name(StrBar)) EXCEPT !.parent = 1]>>

(***************************************************************************)
(* C1.  After parse_python_file succeeds, module_name is the base name of  *)
(* the file without its extension.                                         *)
(***************************************************************************)
C1_ModuleNameIsFileStem ==
    Walked => structure.module_name = Stem(filepath)

(***************************************************************************)
(* C2, as stated.  A call in the body of top-level function foo is         *)
(* recorded under the key module_name.foo, a call in method m of class A   *)
(* under module_name.A.m; for foo calling bar(), calls[module.foo] is      *)
(* {bar}.                                                                  *)
(***************************************************************************)
C2_CallsKeyedByModuleAndScope ==
    Walked =>
        /\ \A n \in CallsInFunction :
              CallDescriptors(n) \subseteq
                  Callees(structure.calls,
                          structure.module_name \o Dot \o FunctionOf(n))
        /\ \A n \in CallsInMethod :
              CallDescriptors(n) \subseteq
                  Callees(structure.calls,
                          structure.module_name \o Dot \o ClassOf(n)
                              \o Dot \o FunctionOf(n))
        /\ tree = FooCallsBar =>
              Callees(structure.calls, structure.module_name \o Dot \o StrFoo)
                  = {StrBar}

(***************************************************************************)
(* C2, amended.  The key is the dot-join of the names of the enclosing     *)
(* definitions, without the module name: foo for a call in top-level       *)
(* function foo, A.m for a call in method m of class A; for foo calling    *)
(* bar(), calls[foo] is {bar} and no key carries the module name.          *)
(***************************************************************************)
C2_CallsKeyedByScopePath ==
    Walked =>
        /\ \A n \in CallsInFunction :
              CallDescriptors(n) \subseteq
                  Callees(structure.calls, FunctionOf(n))
        /\ \A n \in CallsInMethod :
              CallDescriptors(n) \subseteq
                  Callees(structure.calls, ClassOf(n) \o Dot \o FunctionOf(n))
        /\ tree = FooCallsBar =>
              /\ Callees(structure.calls, StrFoo) = {StrBar}
              /\ Len(structure.calls) = 1

C2_Witness ==
    /\ pc = "parsed"
    /\ tree = FooCallsBar
    /\ structure.calls = <<[caller |-> StrFoo, callees |-> {StrBar}]>>

(***************************************************************************)
(* C3.  The N positional defaults are attached to the last N positional    *)
(* parameter entries, and every keyword-only default to the entry of its   *)
(* own keyword-only parameter, for every combination of parameter counts.  *)
(***************************************************************************)
\* the entries with every default on the parameter it belongs to
AlignedArgs(a) ==
    LET npos == Len(a.posonlyargs) + Len(a.args)
        nd == Len(a.defaults)
        base == ArgNames(a)
    IN [i \in 1..Len(base) |->
          IF i <= npos
          THEN IF i > npos - nd
               THEN base[i] \o <<"=">> \o _get_full_name(a.defaults[i - (npos - nd)])
               ELSE base[i]
          ELSE IF a.kw_defaults[i - npos] # None
               THEN base[i] \o <<"=">> \o _get_full_name(a.kw_defaults[i - npos])
               ELSE base[i]]

C3_DefaultsOnTheirParameters ==
    pc = "args_done" => args_list = AlignedArgs(sig)

(***************************************************************************)
(* C4, as stated.  A literal default is recorded as the text of the        *)
(* literal: for def foo(a, b=2) the args are exactly ["a", "b=2"].         *)
(***************************************************************************)
\* the parameters of def foo(a, b=2)
SigFoo == Signature(0, 2, 0, 1, {}, "const", FALSE)

C4_LiteralDefaultAsText ==
    (pc = "args_done" /\ sig = SigFoo) =>
        args_list = << <<"a">>, <<"b", "=", "2">> >>

(***************************************************************************)
(* C4, amended.  A literal default is recorded as the unresolved token     *)
(* "<?>", not as the text of the literal: for def foo(a, b=2) the args are *)
(* exactly ["a", "b=<?>"], and when every default of a signature is a      *)
(* literal each entry is "name[: annotation]" followed by one "=<?>" per   *)
(* default attached to it, one per default of the signature in all.        *)
(***************************************************************************)
RECURSIVE Repeat(_, _)
Repeat(s, k) == IF k = 0 THEN <<>> ELSE s \o Repeat(s, k - 1)

RECURSIVE Sum(_)
Sum(seq) == IF Len(seq) = 0 THEN 0 ELSE seq[1] + Sum(Tail(seq))

AllDefaultsLiteral(a) ==
    /\ \A i \in 1..Len(a.defaults) : a.defaults[i].k = "Constant"
    /\ \A i \in 1..Len(a.kw_defaults) : a.kw_defaults[i].k \in {"Constant", "None"}

NumDefaults(a) ==
    Len(a.defaults)
      + Cardinality({ i \in 1..Len(a.kw_defaults) : a.kw_defaults[i] # None })

C4_LiteralDefaultUnresolved ==
    pc = "args_done" =>
        /\ sig = SigFoo => args_list = << <<"a">>, <<"b", "=", "<", "?", ">">> >>
        /\ AllDefaultsLiteral(sig) =>
              LET base == ArgNames(sig)
                  token == <<"=">> \o Unresolved
                  count == [i \in 1..Len(base) |->
                              (Len(args_list[i]) - Len(base[i])) \div Len(token)]
              IN /\ Len(args_list) = Len(base)
                 /\ \A i \in 1..Len(base) :
                       args_list[i] = base[i] \o Repeat(token, count[i])
                 /\ Sum(count) = NumDefaults(sig)

C4_Witness ==
    /\ pc = "args_done"
    /\ sig = SigFoo
    /\ args_list = << <<"a">>, <<"b", "=", "<", "?", ">">> >>

(***************************************************************************)
(* C5, as stated.  After extraction the methods list of every class record *)
(* holds exactly the function definitions whose immediately enclosing      *)
(* scope is that class, in source order, also when names are shared.       *)
(***************************************************************************)
\* the function definitions directly in the body of definition d, in order
FunctionsIn(d) ==
    SelectSeq([i \in 1..Len(tree) |-> i],
              LAMBDA n : tree[n].kind = "FunctionDef" /\ tree[n].parent = d)

C5_MethodsAreClassBody ==
    Walked =>
        \A c \in 1..Len(structure.classes) :
            DefsOf(structure.classes[c].methods)
                = FunctionsIn(structure.classes[c].def)

(***************************************************************************)
(* C5, amended.  After extraction the methods list of the first class      *)
(* record of each name holds exactly, in source order, the function        *)
(* definitions that follow that class statement and whose immediately      *)
(* enclosing definition (class or function) has that name; a class record  *)
(* preceded by a record of the same name has no methods.                   *)
(***************************************************************************)
FunctionsUnderName(name, after) ==
    SelectSeq([i \in 1..Len(tree) |-> i],
              LAMBDA n : /\ tree[n].kind = "FunctionDef"
                         /\ n > after
                         /\ tree[n].parent # 0
                         /\ tree[tree[n].parent].name = name)

C5_MethodsByFirstNameMatch ==
    Walked =>
        \A c \in 1..Len(structure.classes) :
            LET cls == structure.classes[c]
            IN IF \E e \in 1..(c - 1) : structure.classes[e].name = cls.name
               THEN cls.methods = <<>>
               ELSE DefsOf(cls.methods) = FunctionsUnderName(cls.name, cls.def)

\* two class records share a name and the first holds a function defined in
\* the body of the second
C5_Witness ==
    /\ pc = "parsed"
    /\ \E c, e \in 1..Len(structure.classes) :
          /\ c < e
          /\ structure.classes[c].name = structure.classes[e].name
          /\ \E m \in 1..Len(structure.classes[c].methods) :
                tree[structure.classes[c].methods[m].def].parent
                    = structure.classes[e].def

(***************************************************************************)
(* C6.  Every visited function definition has exactly one record, stored   *)
(* in exactly one place: the module's functions list when the scope stack  *)
(* at the definition is empty or its top names no registered class, and    *)
(* otherwise the methods list of exactly one class record.                 *)
(***************************************************************************)
\* the top of the scope stack at definition n names a class registered
\* before n is visited
TopNamesClass(n) ==
    /\ tree[n].parent # 0
    /\ \E c \in NodesOfKind("ClassDef") :
          c < n /\ tree[c].name = tree[tree[n].parent].name

C6_OneRecordInOnePlace ==
    /\ pc = "visit" =>
          \A n \in NodesOfKind("FunctionDef") : Cardinality(RecordPlaces(n)) <= 1
    /\ Walked =>
          \A n \in NodesOfKind("FunctionDef") :
              /\ Cardinality(RecordPlaces(n)) = 1
              /\ \A place \in RecordPlaces(n) :
                    (place[1] = 0) <=> ~TopNamesClass(n)

\* a method, and a function nested in a definition that went to the module's
\* functions list
C6_Witness ==
    /\ pc = "parsed"
    /\ \E c \in 1..Len(structure.classes) : Len(structure.classes[c].methods) > 0
    /\ \E f \in 1..Len(structure.functions) :
          tree[structure.functions[f].def].parent # 0

(***************************************************************************)
(* C7.  No edge of the graph build has the same node id as source and as   *)
(* target: neither a "calls" edge nor any other edge is a self-loop.       *)
(***************************************************************************)
C7_NoSelfLoopEdge ==
    \A e \in 1..Len(dot_edges) : dot_edges[e].src # dot_edges[e].dst

(***************************************************************************)
(* C8.  Within one graph build every node id is unique: distinct declared  *)
(* entities get distinct ids, and no placeholder id is the id of a         *)
(* declared entity.                                                        *)
(***************************************************************************)
C8_NodeIdsUnique ==
    \A i, j \in 1..Len(dot_nodes) :
        i # j => dot_nodes[i].id # dot_nodes[j].id

(***************************************************************************)
(* C9.  For every (caller, callee) pair of calls whose resolved caller and *)
(* callee node ids differ, the build emits a "calls" edge between them,    *)
(* whatever the dot-depth of the caller scope id.                          *)
(***************************************************************************)
\* the step of the loop of lines 385-421 for item call_i
CallEdgesStep == pc = "calls" /\ call_i' = call_i + 1

\* the edges appended by a step
NewEdges == { dot_edges'[e] : e \in (Len(dot_edges) + 1)..Len(dot_edges') }

C9_EveryCallEdgeEmitted ==
    [][CallEdgesStep =>
         LET mn == structure.module_name
             item == structure.calls[call_i]
             caller_id == FinalCallerId(mn, all_nodes, item.caller)
         IN \A c \in item.callees :
              LET callee_id == ResolveCallee(mn, structure.classes, all_nodes', c)
              IN caller_id # callee_id =>
                    DotEdge(caller_id, callee_id, "calls") \in NewEdges]_vars

(***************************************************************************)
(* C10.  The target of a "calls" edge is (1) the node of the global        *)
(* function or class named by the descriptor when one is declared,         *)
(* otherwise (2) the method node of the first class, in declaration order, *)
(* that has a method named by the descriptor, otherwise (3) a placeholder  *)
(* whose id is the raw descriptor; step 2 only selects method nodes.       *)
(***************************************************************************)
HasMethod(cls, name) == \E m \in 1..Len(cls.methods) : cls.methods[m].name = name

StatedCallee(st, callee) ==
    LET module_id == ModuleId(st.module_name)
    IN IF \/ \E f \in 1..Len(st.functions) : st.functions[f].name = callee
          \/ \E c \in 1..Len(st.classes) : st.classes[c].name = callee
       THEN module_id \o Dot \o callee
       ELSE IF \E c \in 1..Len(st.classes) : HasMethod(st.classes[c], callee)
       THEN LET c == CHOOSE h \in 1..Len(st.classes) :
                         /\ HasMethod(st.classes[h], callee)
                         /\ \A j \in 1..(h - 1) : ~HasMethod(st.classes[j], callee)
            IN module_id \o Dot \o st.classes[c].name \o Dot \o callee
       ELSE callee

C10_CalleeTargetOrder ==
    [][CallEdgesStep =>
         LET item == structure.calls[call_i]
             caller_id == FinalCallerId(structure.module_name, all_nodes, item.caller)
         IN { e.dst : e \in NewEdges }
              = { StatedCallee(structure, c) : c \in item.callees } \ {caller_id}]_vars

(***************************************************************************)
(* C11.  A generic callee node is added only for a callee descriptor that  *)
(* resolves to no declared node: neither module-id.callee nor              *)
(* module-id.Class.callee is the id of a declared node.                    *)
(***************************************************************************)
\* the callee descriptor names a declared function or a declared member
ResolvesToDeclared(st, callee) ==
    LET declared == IdsOf(DeclaredNodes(st))
        module_id == ModuleId(st.module_name)
    IN \/ (module_id \o Dot \o callee) \in declared
       \/ \E i \in 1..Len(st.classes) :
            (module_id \o Dot \o st.classes[i].name \o Dot \o callee) \in declared

C11_PlaceholderOnlyForUnresolved ==
    pc \in {"calls", "built"} =>
        \A i \in 1..Len(dot_nodes) :
            dot_nodes[i].kind = "callee_placeholder" =>
                ~ResolvesToDeclared(structure, dot_nodes[i].id)

(***************************************************************************)
(* C12.  For every class record and every base of its bases list there is  *)
(* exactly one "inherits" edge, from the node module-id.base to the node   *)
(* of the class; a generic node is added for the base exactly when no node *)
(* had that id, so a base declared in the file gets none.                  *)
(***************************************************************************)
InheritsEdges == SelectSeq(dot_edges, LAMBDA e : e.label = "inherits")

\* the nodes that existed before the inheritance pass
NodesBeforeInheritance ==
    SelectSeq(dot_nodes, LAMBDA v : v.kind # "base_placeholder")

C12_OneInheritsEdgePerBase ==
    pc = "built" =>
        LET module_id == ModuleId(structure.module_name)
            classes == structure.classes
            expected == Flatten([c \in 1..Len(classes) |->
                           [b \in 1..Len(classes[c].bases) |->
                               DotEdge(module_id \o Dot \o classes[c].bases[b],
                                       module_id \o Dot \o classes[c].name,
                                       "inherits")]])
        IN /\ InheritsEdges = expected
           /\ \A e \in 1..Len(expected) :
                LET base_id == expected[e].src
                    made == { v \in 1..Len(dot_nodes) :
                                /\ dot_nodes[v].kind = "base_placeholder"
                                /\ dot_nodes[v].id = base_id }
                IN /\ base_id \in IdsOf(dot_nodes)
                   /\ Cardinality(made) =
                        IF base_id \in IdsOf(NodesBeforeInheritance) THEN 0 ELSE 1

\* class A: pass; class B(A): pass -- and the graph has been built
C12_Witness ==
    /\ pc = "built"
    /\ tree = <<ClassDef(StrA, <<>>), ClassDef(StrB, <<Name(StrA)>>)>>
    /\ Len(InheritsEdges) = 1
    /\ InheritsEdges[1].src \in IdsOf(NodesBeforeInheritance)

\* class B(A): pass alone -- the base is no node of the file
C12_PlaceholderReached ==
    /\ pc = "built"
    /\ \E v \in 1..Len(dot_nodes) : dot_nodes[v].kind = "base_placeholder"

(***************************************************************************)
(* C13.  parse_python_file never returns a partial result: it returns      *)
(* either the structure of a completed traversal with no message, or no    *)
(* structure with a non-empty message.  An unreadable file, a syntax error *)
(* and any other fault give no structure, and the message of a syntax      *)
(* error contains "syntax".                                                *)
(***************************************************************************)
\* sub in s (Python's in on strings)
Contains(s, sub) ==
    \E i \in 0..(Len(s) - Len(sub)) : SubSeq(s, i + 1, i + Len(sub)) = sub

\* every definition of the tree has its record and every call expression
\* its descriptor: the walk has been through the whole tree
TraversalComplete ==
    /\ agenda = <<>>
    /\ \A n \in NodesOfKind("ClassDef") :
         \E c \in 1..Len(structure.classes) : structure.classes[c].def = n
    /\ \A n \in NodesOfKind("FunctionDef") : RecordPlaces(n) # {}
    /\ \A n \in 1..Len(tree) :
         \A c \in CallDescriptors(n) :
             \E i \in 1..Len(structure.calls) : c \in structure.calls[i].callees

C13_NoPartialResult ==
    result # None =>
        /\ \/ /\ result.structure # None
              /\ result.message = None
              /\ result.structure = structure
              /\ source = "ok"
              /\ TraversalComplete
           \/ /\ result.structure = None
              /\ result.message # None
              /\ Len(result.message.chars) > 0
        /\ (source # "ok" \/ pc = "failed") => result.structure = None
        /\ source = "syntax_error" =>
             Contains(result.message.chars, <<"s", "y", "n", "t", "a", "x">>)

\* a handler raised after the first two statements of a file had been
\* recorded, and parse_python_file has returned
C13_Witness ==
    /\ pc = "failed"
    /\ source = "ok"
    /\ structure # None
    /\ Len(structure.functions) + Len(structure.classes) >= 2
    /\ result # None
    /\ result.structure = None

\* a file with a syntax error has been reported
C13_SyntaxErrorReached ==
    /\ source = "syntax_error"
    /\ result # None
    /\ Contains(result.message.chars, <<"s", "y", "n", "t", "a", "x", " ", "e", "r", "r", "o", "r">>)

(***************************************************************************)
(* C14.  A path that does not exist is reported before any read or parse:  *)
(* no file is opened and no extractor is created, no structure is          *)
(* returned, and the message contains the path and "does not exist".       *)
(***************************************************************************)
C14_MissingFileReportedFirst ==
    source = "missing" =>
        /\ ~opened
        /\ structure = None
        /\ pc \in {"start", "failed"}
        /\ pc = "failed" =>
             /\ result # None
             /\ result.structure = None
             /\ result.message # None
             /\ Contains(result.message.chars, filepath)
             /\ Contains(result.message.chars, <<"d", "o", "e", "s", " ", "n", "o", "t", " ", "e", "x", "i", "s", "t">>)

\* parse_python_file has returned for the missing path d/game.py
C14_Witness ==
    /\ source = "missing"
    /\ pc = "failed"
    /\ filepath = <<"d", "/", "g", "a", "m", "e", ".", "p", "y">>
    /\ result # None
    /\ result.message = Str(MsgNotExist(filepath))

(***************************************************************************)
(* C15.  In the text report every global function and every method that    *)
(* made at least one call has, right under its line, a "Calls:" sub-list   *)
(* of exactly the callee descriptors recorded for it, sorted: the key the  *)
(* renderer looks up is the key under which the extractor recorded them.   *)
(***************************************************************************)
\* the lines the claim states for definition d: its line, then the sub-list
\* of the callees recorded under key
StatedBlock(indent, d, key) ==
    join(<<"\n">>,
         <<DefLine(indent, [name |-> tree[d].name, args |-> ArgsList(tree[d].args)])>>
         \o CallsLines(structure.calls, key, indent \o <<" ", " ">>))

C15_CallsListedUnderCaller ==
    pc = "reported" =>
        /\ \A n \in CallsInFunction :
              /\ Callees(structure.calls, FunctionOf(n)) # {}
              /\ Contains(report,
                          StatedBlock(<<" ", " ">>, tree[n].parent, FunctionOf(n)))
        /\ \A n \in CallsInMethod :
              /\ Callees(structure.calls, ClassOf(n) \o Dot \o FunctionOf(n)) # {}
              /\ Contains(report,
                          StatedBlock(<<" ", " ", " ", " ", " ", " ">>, tree[n].parent,
                                      ClassOf(n) \o Dot \o FunctionOf(n)))

(***************************************************************************)
(* C16.  Every entity of the text report (import, global variable, global  *)
(* function, class, class attribute, method, callee) has exactly one node  *)
(* in the graph built from the same structure, and the descriptors         *)
(* registered for if, for and while statements are not in the text report. *)
(***************************************************************************)
\* the nodes that stand for the entity: the nodes with one of the ids
EntityNodes(ids) == { v \in 1..Len(dot_nodes) : dot_nodes[v].id \in ids }

\* the callee descriptors the report prints
ReportedCallees(st) ==
    Callees(st.calls, st.module_name)
    \cup UNION { Callees(st.calls, st.module_name \o Dot \o st.functions[f].name) :
                   f \in 1..Len(st.functions) }
    \cup UNION { UNION { Callees(st.calls, st.module_name \o Dot \o st.classes[c].name
                                              \o Dot \o st.classes[c].methods[m].name) :
                           m \in 1..Len(st.classes[c].methods) } :
                   c \in 1..Len(st.classes) }

C16_ReportEntitiesAreGraphNodes ==
    pc = "built" =>
        LET st == structure
            text == format_structure_text(st)
            module_id == ModuleId(st.module_name)
            one(ids) == Cardinality(EntityNodes(ids)) = 1
        IN /\ \A i \in 1..Len(st.imports.direct) :
                one({st.imports.direct[i], module_id \o Dot \o st.imports.direct[i]})
           /\ \A i \in 1..Len(st.imports.from) :
                one({st.imports.from[i], module_id \o Dot \o st.imports.from[i]})
           /\ \A i \in 1..Len(st.global_variables) :
                one({module_id \o Dot \o st.global_variables[i].name})
           /\ \A i \in 1..Len(st.functions) :
                one({module_id \o Dot \o st.functions[i].name})
           /\ \A c \in 1..Len(st.classes) :
                LET class_id == module_id \o Dot \o st.classes[c].name
                IN /\ one({class_id})
                   /\ \A a \in 1..Len(st.classes[c].attributes) :
                        one({class_id \o Dot \o st.classes[c].attributes[a].name})
                   /\ \A m \in 1..Len(st.classes[c].methods) :
                        one({class_id \o Dot \o st.classes[c].methods[m].name})
           /\ \A callee \in ReportedCallees(st) :
                one({callee, module_id \o Dot \o callee}
                    \cup { module_id \o Dot \o st.classes[c].name \o Dot \o callee :
                             c \in 1..Len(st.classes) })
           /\ ~Contains(text, <<"C", "o", "n", "d", "i", "t", "i", "o", "n", ":", " ">>)
           /\ ~Contains(text, <<"F", "o", "r", " ", "L", "o", "o", "p", ":", " ">>)
           /\ ~Contains(text, <<"W", "h", "i", "l", "e", " ", "L", "o", "o", "p", ":", " ">>)

(***************************************************************************)
(* C18.  Every plain or annotated assignment to a simple identifier is     *)
(* recorded in exactly one of two places: in global_variables when the     *)
(* scope stack is empty, and otherwise in the attributes of the first      *)
(* class record whose name is the innermost scope name.                    *)
(***************************************************************************)
AssignKinds == {"Assign", "AnnAssign"}

\* the assignments directly in the body of definition d (of the Module when
\* d = 0) that follow statement `after`, in source order
AssignmentsIn(d, after) ==
    SelectSeq([i \in 1..Len(tree) |-> i],
              LAMBDA n : /\ tree[n].kind \in AssignKinds
                         /\ n > after
                         /\ tree[n].parent = d)

\* the assignments that follow statement `after` and whose innermost
\* enclosing definition has the name
AssignmentsUnderName(name, after) ==
    SelectSeq([i \in 1..Len(tree) |-> i],
              LAMBDA n : /\ tree[n].kind \in AssignKinds
                         /\ n > after
                         /\ tree[n].parent # 0
                         /\ tree[tree[n].parent].name = name)

\* the variable names of a list of records, and of a list of assignments
NamesOf(records) == [i \in 1..Len(records) |-> records[i].name]
TargetsOf(nodes) == [i \in 1..Len(nodes) |-> tree[nodes[i]].name]

\* the number of variable records of the structure
NumVarRecords ==
    Len(structure.global_variables)
    + Sum([c \in 1..Len(structure.classes) |-> Len(structure.classes[c].attributes)])

C18_EveryAssignmentRecordedOnce ==
    Walked =>
        /\ NamesOf(structure.global_variables) = TargetsOf(AssignmentsIn(0, 0))
        /\ \A n \in 1..Len(tree) :
              (tree[n].kind \in AssignKinds /\ tree[n].parent # 0) =>
                  \E c \in 1..Len(structure.classes) :
                      structure.classes[c].name = tree[tree[n].parent].name
        /\ NumVarRecords = Cardinality({ n \in 1..Len(tree) : tree[n].kind \in AssignKinds })

(***************************************************************************)
(* C18, amended.  An assignment at an empty scope stack is appended to     *)
(* global_variables; one at a non-empty stack is appended to the           *)
(* attributes of the first class record whose name is the innermost scope  *)
(* name when there is such a record, and is recorded nowhere when there is *)
(* none; it is never appended to global_variables.                         *)
(***************************************************************************)
C18_AttributesByFirstNameMatch ==
    Walked =>
        /\ NamesOf(structure.global_variables) = TargetsOf(AssignmentsIn(0, 0))
        /\ \A c \in 1..Len(structure.classes) :
              LET cls == structure.classes[c]
              IN IF \E e \in 1..(c - 1) : structure.classes[e].name = cls.name
                 THEN cls.attributes = <<>>
                 ELSE NamesOf(cls.attributes)
                        = TargetsOf(AssignmentsUnderName(cls.name, cls.def))

\* the assignment in the body of a second class A is an attribute of the
\* first record, and the file has an assignment that is recorded nowhere
C18_Witness ==
    /\ pc = "parsed"
    /\ \E c, e \in 1..Len(structure.classes) :
          /\ c < e
          /\ structure.classes[c].name = structure.classes[e].name
          /\ Len(structure.classes[c].attributes) > 0
          /\ AssignmentsIn(structure.classes[c].def, 0) = <<>>

\* def foo(): x: int = 1 -- the assignment is recorded nowhere
C18_DroppedReached ==
    /\ pc = "parsed"
    /\ \E n \in 1..Len(tree) : tree[n].kind = "AnnAssign" /\ tree[n].parent # 0
    /\ NumVarRecords = 0

(***************************************************************************)
(* C19.  The scope stack is balanced: at every point of the traversal it   *)
(* is the list of the names of the class and function definitions that     *)
(* enclose the current node, outermost first; a call is recorded under the *)
(* dot-join of that list, or under module_name when the list is empty; and *)
(* the stack is empty when the traversal ends.  A definition encloses the  *)
(* expressions of its own header (bases, defaults, annotations), which are *)
(* its child nodes.                                                        *)
(***************************************************************************)
\* the pairs (scope id, descriptor) recorded in calls
RecordedCalls ==
    UNION { { <<structure.calls[i].caller, c>> : c \in structure.calls[i].callees } :
              i \in 1..Len(structure.calls) }

\* the pairs (scope id, descriptor) the claim states for the tree
StatedCalls ==
    UNION { { <<StatedScopeId(r[1]), r[2]>> : r \in Registered(n) } :
              n \in 1..Len(tree) }

C19_ScopeStackBalanced ==
    /\ (pc = "visit" /\ Len(agenda) > 0) =>
          current_scope =
              IF Head1.op = "pop" THEN ScopePath(Head1.n)
              ELSE IF Head1.op = "expr" THEN ScopePath(ExprScope(Head1.n))
              ELSE IF Head1.n = 0 THEN <<>>
              ELSE ScopePath(tree[Head1.n].parent)
    /\ ((pc = "visit" /\ Len(agenda) = 0) \/ Walked) =>
          /\ current_scope = <<>>
          /\ RecordedCalls = StatedCalls

\* a call at top level that follows a definition nested in another one has
\* been recorded, and the traversal has ended
C19_Witness ==
    /\ pc = "parsed"
    /\ \E d, n \in 1..Len(tree) :
          /\ tree[d].kind \in DefKinds
          /\ tree[d].parent # 0
          /\ n > d
          /\ tree[n].kind = "Call"
          /\ tree[n].parent = 0
    /\ HasKey(structure.calls, structure.module_name)

\* def foo(a: int=m.d1(), *, j=m.e1()): foo()() -- the calls of the header
\* and the two calls of the statement are recorded under foo
C19_HeaderCallsReached ==
    /\ pc = "parsed"
    /\ Len(tree) = 2
    /\ tree[1].kind = "FunctionDef"
    /\ structure.calls =
          <<[caller |-> StrFoo,
             callees |-> { <<"m", ".", "d", "1">>, <<"m", ".", "e", "1">>,
                           StrFoo, StrFoo \o <<"(", ".", ".", ".", ")">> }]>>

(***************************************************************************)
(* C20.  Every edge the graph build emits (contains, has attribute,        *)
(* contains method, calls, inherits) has both endpoints among the nodes    *)
(* the build has created when the edge is added, whatever the order in     *)
(* which the calls entries and their callees are processed.                *)
(***************************************************************************)
C20_EdgeEndpointsAreNodes ==
    /\ \A e \in 1..Len(dot_edges) :
          /\ dot_edges[e].src \in IdsOf(dot_nodes)
          /\ dot_edges[e].dst \in IdsOf(dot_nodes)
    /\ all_nodes = IdsOf(dot_nodes)

\* a calls edge to a generic callee node and an inherits edge from a
\* generic base node have been emitted
C20_Witness ==
    /\ pc = "built"
    /\ \E e \in 1..Len(dot_edges), v \in 1..Len(dot_nodes) :
          /\ dot_edges[e].label = "calls"
          /\ dot_nodes[v].kind = "callee_placeholder"
          /\ dot_edges[e].dst = dot_nodes[v].id
    /\ \E e \in 1..Len(dot_edges), v \in 1..Len(dot_nodes) :
          /\ dot_edges[e].label = "inherits"
          /\ dot_nodes[v].kind = "base_placeholder"
          /\ dot_edges[e].src = dot_nodes[v].id

(***************************************************************************)
(* C17.  The result of an analysis depends only on the analysed source:    *)
(* analysing the same file again, directly or after the analysis of        *)
(* another file in the same process, gives an equal structure, and no      *)
(* record (class, function, variable, import, call, scope stack entry) of  *)
(* one analysis is in the structure of another.                            *)
(***************************************************************************)
\* record r is the record of a definition of that kind of the current tree
IsRecordOf(r, kind) ==
    /\ r.def \in 1..Len(tree)
    /\ tree[r.def].kind = kind
    /\ tree[r.def].name = r.name

\* variable record v is the record of an assignment of the current tree
IsVariableOf(v) ==
    \E n \in 1..Len(tree) : tree[n].kind \in AssignKinds /\ tree[n].name = v.name

\* every record of the extractor comes from the tree it is walking
FromThisTree ==
    /\ \A i \in 1..Len(structure.imports.direct) :
          \E n \in NodesOfKind("Import") :
              structure.imports.direct[i] \in Range(tree[n].names)
    /\ \A i \in 1..Len(structure.imports.from) :
          \E n \in NodesOfKind("ImportFrom") :
              \E a \in Range(tree[n].names) :
                  structure.imports.from[i] \in
                      {a} \cup (IF tree[n].module # None
                                THEN {tree[n].module.chars \o Dot \o a} ELSE {})
    /\ \A i \in 1..Len(structure.global_variables) :
          IsVariableOf(structure.global_variables[i])
    /\ \A i \in 1..Len(structure.functions) :
          IsRecordOf(structure.functions[i], "FunctionDef")
    /\ \A c \in 1..Len(structure.classes) :
          /\ IsRecordOf(structure.classes[c], "ClassDef")
          /\ \A a \in 1..Len(structure.classes[c].attributes) :
                IsVariableOf(structure.classes[c].attributes[a])
          /\ \A m \in 1..Len(structure.classes[c].methods) :
                IsRecordOf(structure.classes[c].methods[m], "FunctionDef")
    /\ \A i \in 1..Len(structure.calls) :
          /\ \E d \in 0..Len(tree) :
                /\ d # 0 => tree[d].kind \in DefKinds
                /\ structure.calls[i].caller = StatedScopeId(d)
          /\ \A callee \in structure.calls[i].callees :
                \E n \in 1..Len(tree) :
                    \E r \in Registered(n) : r[2] = callee
    /\ \A i \in 1..Len(current_scope) :
          \E d \in 1..Len(tree) :
              tree[d].kind \in DefKinds /\ tree[d].name = current_scope[i]

C17_AnalysesIndependent ==
    /\ pc = "parsed" =>
          \A k \in 1..Len(previous) :
              previous[k].tree = tree => previous[k].structure = result.structure
    /\ pc \in {"visit", "parsed"} => FromThisTree

\* the first file has been analysed, then the other file, then the first
\* file again
C17_Witness ==
    /\ pc = "parsed"
    /\ Len(previous) = 2
    /\ previous[1].tree = tree
    /\ previous[2].tree = OtherTree
    /\ Len(structure.classes) > 0
    /\ Len(structure.calls) > 0


====
